---- MODULE Spec2Model ----
(***************************************************************************)
(* Model of provider-dns-v2: the credential-to-configuration mapping       *)
(* (internal/clients/dns-v2.go), the Terraform setup function built around *)
(* it, provider-config resolution, and the generated controller            *)
(* registration lists (internal/controller/cluster/zz_setup.go).           *)
(*                                                                         *)
(* Go values are represented as follows:                                   *)
(*   map[string]string / map[string]any  -> function with a string domain  *)
(*   string                              -> string                         *)
(*   []any{m} / []map[string]any{m}      -> sequence <<m>>                 *)
(*   nil error                           -> Nil                            *)
(***************************************************************************)
EXTENDS Naturals, Sequences, FiniteSets, TLC

\* ------------------------------------------------------------------------
\* Bounds of the model
\* ------------------------------------------------------------------------

\* Largest number of keys in a credential mapping handed to buildAuthConfig.
MaxFields == 4

\* Largest number of calls of buildAuthConfig in one run of repeated calls.
MaxCalls == 3

\* Largest number of members of the JSON object that holds the credentials.
MaxMembers == 2

\* ------------------------------------------------------------------------
\* Constants of internal/clients/dns-v2.go
\* ------------------------------------------------------------------------

keyRFC == "rfc"
keyServer == "server"
update == "update"
keyPort == "port"
keyRetries == "retries"
keyTimeout == "timeout"
keyTransport == "transport"

gsstsigRFC == "3645"
gssapi == "gssapi"
keyTab == "keytab"
keyPassword == "password"
keyRealm == "realm"
keyUsername == "username"

keyBasedTransactionRFC == "2845"
transactionKeyAlgorithm == "key_algorithm"
transcationKeyName == "key_name"
transactionKeySecret == "key_secret"

\* Errors are chains of messages, outermost first; the nil error is empty.
Nil == <<>>

\* errors.New(msg)
NewError(msg) == <<msg>>

\* errors.Wrap(err, msg): nil when err is nil.
Wrap(err, msg) == IF err = Nil THEN Nil ELSE <<msg>> \o err

\* ------------------------------------------------------------------------
\* Go maps
\* ------------------------------------------------------------------------

\* map[string]any{} / make(map[string]any)
EmptyMap == [k \in {} |-> ""]

\* m[k] = v
Put(m, k, v) == [x \in (DOMAIN m) \cup {k} |-> IF x = k THEN v ELSE m[x]]

\* Variant: a field counts as present only when its value is non-empty.
CopyIfNonEmpty(config, creds, k) ==
    IF k \in DOMAIN creds /\ creds[k] # "" THEN Put(config, k, creds[k]) ELSE config

\* if v, ok := creds[k]; ok { config[k] = v }
CopyIfPresent(config, creds, k) ==
    IF k \in DOMAIN creds THEN Put(config, k, creds[k]) ELSE config

\* Variant: the merged map replaces a instead of being inserted into it.
mergeMapsReplace(a, b) == b

\* mergeMaps mutates a in place; as a value: map a after the loop, every key
\* of b inserted into it (b wins on a shared key, the other keys of a stay).
mergeMaps(a, b) ==
    [x \in (DOMAIN a) \cup (DOMAIN b) |-> IF x \in DOMAIN b THEN b[x] ELSE a[x]]

\* ------------------------------------------------------------------------
\* The helpers of buildAuthConfig
\* ------------------------------------------------------------------------

\* Variant: the username is stored under the password key as well.
buildGSSTSIGAuthConfigSlip(creds) ==
    LET c1 == CopyIfPresent(EmptyMap, creds, keyRealm)
        c2 == CopyIfPresent(c1, creds, keyUsername)
        c3 == IF keyUsername \in DOMAIN creds
              THEN Put(c2, keyPassword, creds[keyUsername]) ELSE c2
        c4 == CopyIfPresent(c3, creds, keyTab)
    IN  c4

buildGSSTSIGAuthConfig(creds) ==
    LET c1 == CopyIfPresent(EmptyMap, creds, keyRealm)
        c2 == CopyIfPresent(c1, creds, keyUsername)
        c3 == CopyIfPresent(c2, creds, keyPassword)
        c4 == CopyIfPresent(c3, creds, keyTab)
    IN  c4

\* Variant: the key secret is left out.
buildSecretBasedTransactionAuthConfigNoSecret(creds) ==
    LET c1 == CopyIfPresent(EmptyMap, creds, transcationKeyName)
        c2 == CopyIfPresent(c1, creds, transactionKeyAlgorithm)
    IN  c2

buildSecretBasedTransactionAuthConfig(creds) ==
    LET c1 == CopyIfPresent(EmptyMap, creds, transcationKeyName)
        c2 == CopyIfPresent(c1, creds, transactionKeyAlgorithm)
        c3 == CopyIfPresent(c2, creds, transactionKeySecret)
    IN  c3

buildOptionalConfig(creds) ==
    LET c1 == CopyIfPresent(EmptyMap, creds, keyPort)
        c2 == CopyIfPresent(c1, creds, keyRetries)
        c3 == CopyIfPresent(c2, creds, keyTimeout)
        c4 == CopyIfPresent(c3, creds, keyTransport)
    IN  c4

\* ------------------------------------------------------------------------
\* Inputs
\* ------------------------------------------------------------------------

GSSKeys == {keyRealm, keyUsername, keyPassword, keyTab}
TransactionKeys == {transcationKeyName, transactionKeyAlgorithm, transactionKeySecret}
OptionalKeys == {keyPort, keyRetries, keyTimeout, keyTransport}
AuthKeys == GSSKeys \cup TransactionKeys

\* A key the provider does not know, to see that nothing else is copied.
UnknownKeys == {"zone"}

FieldKeys == {keyServer} \cup OptionalKeys \cup AuthKeys \cup UnknownKeys

\* Values a field may hold; the empty string is a value like any other.
FieldValues == {"", "a"}

\* Values of "rfc": the two known modes, an unknown mode and the empty string.
RfcValues == {gsstsigRFC, keyBasedTransactionRFC, "1035", ""}

SubsetsUpTo(S, n) == {T \in SUBSET S : Cardinality(T) <= n}

\* Every credential mapping with at most n keys.
CredsUpTo(n) ==
    (UNION {[T -> FieldValues] : T \in SubsetsUpTo(FieldKeys, n)})
    \cup
    (IF n = 0 THEN {}
     ELSE UNION {{Put(f, keyRFC, r) : f \in [T -> FieldValues], r \in RfcValues}
                 : T \in SubsetsUpTo(FieldKeys, n - 1)})

\* ------------------------------------------------------------------------
\* State
\* ------------------------------------------------------------------------

VARIABLES
    bpc,      \* position of the running buildAuthConfig call
    creds,    \* the credential mapping (a Go map: caller and callee share it)
    passed,   \* the mapping as it was when buildAuthConfig was entered
    config,   \* buildAuthConfig's local map `config`
    ret,      \* the value buildAuthConfig returned last
    probe,    \* the mapping buildAuthConfig is called on repeatedly
    calls,    \* number of calls of buildAuthConfig started
    log,      \* the completed calls: argument, argument afterwards, result
    gated,    \* controller setup: TRUE for SetupGated, FALSE for Setup
    mgr,      \* controller setup: the manager supplied
    opts,     \* controller setup: the options supplied
    cpc,      \* controller setup: "loop" or "done" ("idle": not called)
    idx,      \* controller setup: position of the loop in the list
    invoked,  \* controller setup: the invocations made, in order
    ctlRet,   \* controller setup: the error returned
    variant,  \* setup function: which of the two source versions runs
    builder,  \* setup function: the arguments of TerraformSetupBuilder
    mg,       \* setup function: the managed resource
    spc,      \* setup function: position
    resolved, \* setup function: what resolveProviderConfig did and returned
    data,     \* setup function: the credential bytes extracted
    stages,   \* setup function: the stages entered, in order
    store,    \* the objects the API server holds now
    ps,       \* setup function: the local terraform.Setup
    out       \* setup function: the (Setup, error) returned

buildVars == <<bpc, creds, passed, config, ret>>

\* State of the callers of buildAuthConfig.
pureVars == <<probe, calls, log>>

callerVars == <<pureVars>>

ctlVars == <<gated, mgr, opts, cpc, idx, invoked, ctlRet>>

setupVars == <<variant, builder, mg, store, spc, resolved, data, stages, ps, out>>

vars == <<buildVars, callerVars, ctlVars, setupVars>>

\* ------------------------------------------------------------------------
\* buildAuthConfig, statement by statement
\* ------------------------------------------------------------------------

\* Variant: config is a map that outlives the call (it is not made anew).
BuildEnterReuse ==
    /\ bpc = "call"
    /\ passed' = creds
    /\ bpc' = "server"
    /\ UNCHANGED <<creds, config, ret, callerVars, ctlVars, setupVars>>

\* config := map[string]any{}
BuildEnter ==
    /\ bpc = "call"
    /\ config' = EmptyMap
    /\ passed' = creds
    /\ bpc' = "server"
    /\ UNCHANGED <<creds, ret, callerVars, ctlVars, setupVars>>

\* if server, ok := creds[keyServer]; ok { config[keyServer] = server }
ConfigAfterServer(cfg, c) == CopyIfPresent(cfg, c, keyServer)

BuildServer ==
    /\ bpc = "server"
    /\ config' = ConfigAfterServer(config, creds)
    /\ bpc' = "rfc"
    /\ UNCHANGED <<creds, passed, ret, callerVars, ctlVars, setupVars>>

\* Variant: GSS-TSIG is the default branch of the switch.
ConfigAfterRFCDefaultGSS(cfg, c) ==
    IF keyRFC \in DOMAIN c
    THEN CASE c[keyRFC] = keyBasedTransactionRFC ->
                mergeMaps(cfg, buildSecretBasedTransactionAuthConfig(c))
           [] OTHER ->
                Put(cfg, gssapi, <<buildGSSTSIGAuthConfig(c)>>)
    ELSE cfg

\* if rfc, ok := creds[keyRFC]; ok { switch rfc { ... } }
ConfigAfterRFC(cfg, c) ==
    IF keyRFC \in DOMAIN c
    THEN CASE c[keyRFC] = gsstsigRFC ->
                Put(cfg, gssapi, <<buildGSSTSIGAuthConfig(c)>>)
           [] c[keyRFC] = keyBasedTransactionRFC ->
                mergeMaps(cfg, buildSecretBasedTransactionAuthConfig(c))
           [] OTHER -> cfg
    ELSE cfg

BuildRFC ==
    /\ bpc = "rfc"
    /\ config' = ConfigAfterRFC(config, creds)
    /\ bpc' = "optional"
    /\ UNCHANGED <<creds, passed, ret, callerVars, ctlVars, setupVars>>

\* optionalConfig := buildOptionalConfig(creds); mergeMaps(config, optionalConfig)
ConfigAfterOptional(cfg, c) == mergeMaps(cfg, buildOptionalConfig(c))

BuildOptional ==
    /\ bpc = "optional"
    /\ config' = ConfigAfterOptional(config, creds)
    /\ bpc' = "return"
    /\ UNCHANGED <<creds, passed, ret, callerVars, ctlVars, setupVars>>

\* return config
BuildReturn ==
    /\ bpc = "return"
    /\ ret' = config
    /\ bpc' = "returned"
    /\ UNCHANGED <<creds, passed, config, callerVars, ctlVars, setupVars>>

BuildStep ==
    \/ BuildEnter
    \/ BuildServer
    \/ BuildRFC
    \/ BuildOptional
    \/ BuildReturn

\* buildAuthConfig(c) as a value: its statements in order, on a new map.
buildAuthConfig(c) ==
    ConfigAfterOptional(ConfigAfterRFC(ConfigAfterServer(EmptyMap, c), c), c)

\* ------------------------------------------------------------------------
\* Provider-config resolution (resolveProviderConfig and its helpers)
\* ------------------------------------------------------------------------

errNoProviderConfig == "no providerConfigRef provided"
errGetProviderConfig == "cannot get referenced ProviderConfig"
errTrackUsage == "cannot track ProviderConfig usage"
errExtractCredentials == "cannot extract credentials"
errUnmarshalCredentials == "cannot unmarshal dns-v2 credentials as JSON"

\* The two versions of the source: dns-v2.go configures the Terraform
\* provider (SDK), the other version only fetches the framework provider.
Variants == {"sdk", "framework"}

\* Go types of the objects the client serves.
LegacyPC == "clusterv1beta1.ProviderConfig"
ModernPC == "namespacedv1beta1.ProviderConfig"
ModernCPC == "namespacedv1beta1.ClusterProviderConfig"
ModernPCU == "namespacedv1beta1.ProviderConfigUsage"
ModernPCList == "namespacedv1beta1.ProviderConfigList"
LegacyPCU == "clusterv1beta1.ProviderConfigUsage"

\* crClient.Scheme().New(SchemeGroupVersion.WithKind(kind)): the Go type of
\* the kinds registered in the group version; a list type is a runtime
\* object but no client.Object.
KindType ==
    [k \in {"ProviderConfig", "ClusterProviderConfig", "ProviderConfigUsage",
            "ProviderConfigList"} |->
        CASE k = "ProviderConfig" -> ModernPC
          [] k = "ClusterProviderConfig" -> ModernCPC
          [] k = "ProviderConfigUsage" -> ModernPCU
          [] OTHER -> ModernPCList]

RefKinds == (DOMAIN KindType) \cup {"Unregistered"}
IsClientObject(t) == t # ModernPCList
ClusterScoped(t) == t \in {LegacyPC, ModernCPC, LegacyPCU}

\* A *SecretKeySelector (nil: no selector).
NilSecretRef == [nil |-> TRUE, name |-> "", namespace |-> "", key |-> ""]
SecretRef(n, ns) == [nil |-> FALSE, name |-> n, namespace |-> ns, key |-> "credentials"]

\* A *ProviderConfigSpec, by its credentials (nil: no spec).
NilSpec == [nil |-> TRUE, source |-> "", secretRef |-> NilSecretRef]
PCSpec(src, sel) == [nil |-> FALSE, source |-> src, secretRef |-> sel]

\* The objects the API server holds when the setup function is called.
Store ==
    { [type |-> LegacyPC, namespace |-> "", name |-> "default",
       spec |-> PCSpec("Secret", SecretRef("legacy-secret", "crossplane-system"))],
      [type |-> ModernPC, namespace |-> "ns1", name |-> "default",
       spec |-> PCSpec("Secret", SecretRef("ns1-secret", "elsewhere"))],
      [type |-> ModernPC, namespace |-> "ns2", name |-> "default",
       spec |-> PCSpec("None", NilSecretRef)],
      [type |-> ModernCPC, namespace |-> "", name |-> "default",
       spec |-> PCSpec("Secret", SecretRef("cluster-secret", "crossplane-system"))],
      [type |-> ModernPCU, namespace |-> "ns1", name |-> "default",
       spec |-> PCSpec("", NilSecretRef)] }

\* A Get request (nil: none was issued).
NoReq == [nil |-> TRUE, type |-> "", name |-> "", namespace |-> ""]
GetReq(t, n, ns) == [nil |-> FALSE, type |-> t, name |-> n, namespace |-> ns]

\* client.Get against the objects st: the object of the request's type and
\* name; the namespace of the key counts only for a namespaced type.
Lookup(st, req) ==
    {o \in st : /\ o.type = req.type
                /\ o.name = req.name
                /\ (ClusterScoped(req.type) \/ o.namespace = req.namespace)}

GetError(st, req) ==
    IF Lookup(st, req) = {} THEN NewError("not found") ELSE NewError("get failed")

\* A provider-config reference (nil: the resource has none). A legacy
\* reference has a name only.
NilRef == [nil |-> TRUE, name |-> "", kind |-> ""]
Ref(n, k) == [nil |-> FALSE, name |-> n, kind |-> k]

RefNames == {"default", "missing"}

\* The managed resources: legacy (cluster-scoped), modern (namespaced), and
\* a resource.Managed that is neither.
Manageds ==
    {[kind |-> "legacy", ref |-> r, namespace |-> ""]
        : r \in {NilRef} \cup {Ref(n, "") : n \in RefNames}}
    \cup
    {[kind |-> "modern", ref |-> r, namespace |-> ns]
        : r \in {NilRef} \cup {Ref(n, k) : n \in RefNames, k \in RefKinds},
          ns \in {"ns1", "ns2"}}
    \cup
    {[kind |-> "other", ref |-> NilRef, namespace |-> ""]}

\* What a resolution did and returned: the Get it issued, the object it
\* fetched, whether it called Track, and (spec, err). Between the Get and
\* the Track it holds the locals: the object fetched and pcSpec.
Resolution(req, obj, tracked, spec, err) ==
    [req |-> req, fetched |-> obj, tracked |-> tracked, spec |-> spec, err |-> err]

NoObject == {}

\* A nil *clusterv1beta1.ProviderConfig.
NilPC == [type |-> "", namespace |-> "", name |-> "", spec |-> NilSpec]

\* json.Marshal of a provider-config spec: its fields by their JSON paths;
\* a nil secretRef is omitted.
MarshalSpec(spec) ==
    LET src == Put(EmptyMap, "credentials.source", spec.source)
    IN  IF spec.secretRef.nil THEN src
        ELSE Put(Put(Put(src, "credentials.secretRef.name", spec.secretRef.name),
                     "credentials.secretRef.namespace", spec.secretRef.namespace),
                 "credentials.secretRef.key", spec.secretRef.key)

\* json.Unmarshal into a namespaced ProviderConfigSpec.
UnmarshalSpec(j) ==
    PCSpec(j["credentials.source"],
           IF "credentials.secretRef.name" \in DOMAIN j
           THEN [nil |-> FALSE,
                 name |-> j["credentials.secretRef.name"],
                 namespace |-> j["credentials.secretRef.namespace"],
                 key |-> j["credentials.secretRef.key"]]
           ELSE NilSecretRef)

\* toSharedPCSpec returns (spec, err): (nil, nil) for a nil pc; (nil, err)
\* when json.Marshal fails; otherwise &mSpec together with the error of
\* json.Unmarshal, so a failed Unmarshal returns a non-nil spec (the zero
\* value) with a non-nil error. Whether the two JSON calls succeed is an
\* input.
toSharedPCSpec(pc, marshalOk, unmarshalOk) ==
    IF pc = NilPC
    THEN [spec |-> NilSpec, err |-> Nil]
    ELSE IF ~marshalOk
    THEN [spec |-> NilSpec, err |-> NewError("json: unsupported value")]
    ELSE IF ~unmarshalOk
    THEN [spec |-> PCSpec("", NilSecretRef),
          err |-> NewError("json: cannot unmarshal")]
    ELSE [spec |-> UnmarshalSpec(MarshalSpec(pc.spec)), err |-> Nil]

\* The ProviderConfigUsage t.Track(ctx, mg) writes for the resource m: of
\* the tracker's prototype type, in the resource's namespace, named after
\* the resource, holding the resource's provider-config reference.
UsageOf(m) ==
    [type |-> IF m.kind = "legacy" THEN LegacyPCU ELSE ModernPCU,
     namespace |-> m.namespace,
     name |-> "usage-of-mg",
     spec |-> PCSpec("", NilSecretRef),
     providerConfigRef |-> m.ref]

\* The objects st after t.Track(ctx, mg): a Track that succeeds has created
\* or updated the usage of m, one that fails has written nothing.
Tracked(st, m, trackOk) ==
    IF trackOk
    THEN {o \in st : ~(/\ o.type = UsageOf(m).type
                       /\ o.namespace = UsageOf(m).namespace
                       /\ o.name = UsageOf(m).name)} \cup {UsageOf(m)}
    ELSE st

\* resolveLegacy up to and including client.Get, against the objects st.
\* A nil error: the call goes on to Track.
legacyGet(m, st, getOk) ==
    IF m.ref.nil
    THEN Resolution(NoReq, NoObject, FALSE, NilSpec, NewError(errNoProviderConfig))
    ELSE LET req == GetReq(LegacyPC, m.ref.name, "")
             found == Lookup(st, req)
         IN  IF ~getOk \/ found = {}
             THEN Resolution(req, NoObject, FALSE, NilSpec,
                             Wrap(GetError(st, req), errGetProviderConfig))
             ELSE Resolution(req, found, FALSE, NilSpec, Nil)

\* resolveLegacy from Track on: r holds the object fetched.
legacyTrack(r, trackOk, marshalOk, unmarshalOk) ==
    IF ~trackOk
    THEN Resolution(r.req, r.fetched, TRUE, NilSpec,
                    Wrap(NewError("track failed"), errTrackUsage))
    ELSE LET s == toSharedPCSpec(CHOOSE o \in r.fetched : TRUE, marshalOk, unmarshalOk)
         IN  Resolution(r.req, r.fetched, TRUE, s.spec, s.err)

resolveLegacy(m, st, getOk, trackOk, marshalOk, unmarshalOk) ==
    LET r == legacyGet(m, st, getOk)
    IN  IF r.err # Nil THEN r
        ELSE legacyTrack(r, trackOk, marshalOk, unmarshalOk)

\* The message for a registered type that is no client.Object.
NotAnObject(v) ==
    IF v = "sdk" THEN " is not an Object" ELSE "ProviderConfig is not a client.Object"

\* pcSpec = pc.Spec; if SecretRef != nil { SecretRef.Namespace = namespace }
WithSecretNamespace(spec, ns) ==
    IF spec.secretRef.nil THEN spec
    ELSE [spec EXCEPT !.secretRef.namespace = ns]

\* Variant: the Get of resolveModern leaves the namespace out, as the Get
\* of resolveLegacy does.
ModernGetReqNoNamespace(m) == GetReq(KindType[m.ref.kind], m.ref.name, "")

\* types.NamespacedName{Name: configRef.Name, Namespace: mg.GetNamespace()}
ModernGetReq(m) == GetReq(KindType[m.ref.kind], m.ref.name, m.namespace)

\* resolveModern up to and including the type switch on the object fetched,
\* against the objects st. A nil error: the call goes on to Track, with
\* pcSpec in the spec field.
modernGet(m, st, getOk, v) ==
    IF m.ref.nil
    THEN Resolution(NoReq, NoObject, FALSE, NilSpec, NewError(errNoProviderConfig))
    ELSE IF m.ref.kind \notin DOMAIN KindType
    THEN Resolution(NoReq, NoObject, FALSE, NilSpec,
                    Wrap(NewError("no kind is registered"),
                         "unknown GVK for ProviderConfig"))
    ELSE IF ~IsClientObject(KindType[m.ref.kind])
    THEN Resolution(NoReq, NoObject, FALSE, NilSpec, NewError(NotAnObject(v)))
    ELSE LET req == ModernGetReq(m)
             found == Lookup(st, req)
             pc == CHOOSE o \in found : TRUE
         IN  IF ~getOk \/ found = {}
             THEN Resolution(req, NoObject, FALSE, NilSpec,
                             Wrap(GetError(st, req), errGetProviderConfig))
             ELSE IF pc.type \notin {ModernPC, ModernCPC}
             THEN Resolution(req, found, FALSE, NilSpec,
                             NewError("unknown provider config type"))
             ELSE Resolution(req, found, FALSE,
                             IF pc.type = ModernPC
                             THEN WithSecretNamespace(pc.spec, m.namespace)
                             ELSE pc.spec,
                             Nil)

\* resolveModern from Track on: r holds the object fetched and pcSpec.
modernTrack(r, trackOk) ==
    IF ~trackOk
    THEN Resolution(r.req, r.fetched, TRUE, NilSpec,
                    Wrap(NewError("track failed"), errTrackUsage))
    ELSE Resolution(r.req, r.fetched, TRUE, r.spec, Nil)

resolveModern(m, st, getOk, trackOk, v) ==
    LET r == modernGet(m, st, getOk, v)
    IN  IF r.err # Nil THEN r ELSE modernTrack(r, trackOk)

\* switch managed := mg.(type), as far as the Get of the function chosen
providerConfigGet(m, st, getOk, v) ==
    CASE m.kind = "legacy" -> legacyGet(m, st, getOk)
      [] m.kind = "modern" -> modernGet(m, st, getOk, v)
      [] OTHER -> Resolution(NoReq, NoObject, FALSE, NilSpec,
                             NewError("resource is not a managed resource"))

\* The rest of the function chosen, from its Track on.
providerConfigTrack(m, r, trackOk, marshalOk, unmarshalOk) ==
    IF m.kind = "legacy"
    THEN legacyTrack(r, trackOk, marshalOk, unmarshalOk)
    ELSE modernTrack(r, trackOk)

\* resolveProviderConfig as one function of the objects st and of the
\* outcomes of the calls it makes.
resolveProviderConfig(m, st, getOk, trackOk, marshalOk, unmarshalOk, v) ==
    CASE m.kind = "legacy" ->
            resolveLegacy(m, st, getOk, trackOk, marshalOk, unmarshalOk)
      [] m.kind = "modern" -> resolveModern(m, st, getOk, trackOk, v)
      [] OTHER -> Resolution(NoReq, NoObject, FALSE, NilSpec,
                             NewError("resource is not a managed resource"))

NoResolution == Resolution(NoReq, NoObject, FALSE, NilSpec, Nil)

\* The provider configs a resource's reference names: what its Get asks for.
Target(m, st) ==
    CASE m.kind = "legacy" /\ ~m.ref.nil ->
            Lookup(st, GetReq(LegacyPC, m.ref.name, ""))
      [] m.kind = "modern" /\ ~m.ref.nil /\ m.ref.kind \in DOMAIN KindType ->
            Lookup(st, ModernGetReq(m))
      [] OTHER -> {}

\* The spec of a provider config after someone else has edited it.
EditedSpec == PCSpec("Secret", SecretRef("edited-secret", "crossplane-system"))

\* ------------------------------------------------------------------------
\* The credential bytes and json.Unmarshal into a map[string]string
\* ------------------------------------------------------------------------

\* JSON values of a member: a string, null, or a number.
JString(x) == [t |-> "string", s |-> x]
JNull == [t |-> "null", s |-> ""]
JNumber == [t |-> "number", s |-> "53"]

JsonKeys == {keyRFC, keyRealm, keyPort}
JsonValues == {JString(gsstsigRFC), JString(""), JNull, JNumber}
JsonMembers == {[key |-> k, val |-> v] : k \in JsonKeys, v \in JsonValues}

SeqsUpTo(S, n) == UNION {[1..i -> S] : i \in 0..n}

\* The byte strings the extractor may deliver: nothing, text that is no
\* JSON, the JSON null, a JSON array, or a JSON object (its members in the
\* order of the text, a key possibly more than once).
Doc(k, ms) == [kind |-> k, members |-> ms]
Docs ==
    {Doc(k, <<>>) : k \in {"empty", "invalid", "null", "array"}}
    \cup {Doc("object", ms) : ms \in SeqsUpTo(JsonMembers, MaxMembers)}

\* json.Unmarshal stores a member in the map: a string as it is; a null or
\* a number leaves the new element at its zero value, the empty string.
RECURSIVE StoreMembers(_, _)
StoreMembers(m, ms) ==
    IF ms = <<>> THEN m
    ELSE StoreMembers(Put(m, Head(ms).key,
                          IF Head(ms).val.t = "string" THEN Head(ms).val.s ELSE ""),
                      Tail(ms))

\* The first member json.Unmarshal cannot store in a string: a number.
HasNumber(ms) == \E i \in 1..Len(ms) : ms[i].val.t = "number"

\* json.Unmarshal(data, &creds) with creds == m: the map afterwards and the
\* error. The JSON null sets the map to nil, which reads as an empty map; an
\* object with a number is stored whole and the type error returned.
Unmarshal(doc, m) ==
    CASE doc.kind = "empty" ->
            [creds |-> m, err |-> NewError("unexpected end of JSON input")]
      [] doc.kind = "invalid" ->
            [creds |-> m, err |-> NewError("invalid character")]
      [] doc.kind = "null" ->
            [creds |-> EmptyMap, err |-> Nil]
      [] doc.kind = "array" ->
            [creds |-> m, err |-> NewError("cannot unmarshal array")]
      [] OTHER ->
            [creds |-> StoreMembers(m, doc.members),
             err |-> IF HasNumber(doc.members)
                     THEN NewError("cannot unmarshal number") ELSE Nil]

\* ------------------------------------------------------------------------
\* terraform.Setup
\* ------------------------------------------------------------------------

\* terraform.Setup{}: Configuration is a nil map; Meta and FrameworkProvider
\* are nil ("").
ZeroSetup ==
    [Version |-> "",
     Requirement |-> [Source |-> "", Version |-> ""],
     ConfigurationSet |-> FALSE,
     Configuration |-> EmptyMap,
     Meta |-> "",
     FrameworkProvider |-> ""]

ReturnOf(setup, err) == [returned |-> TRUE, setup |-> setup, err |-> err]
NotReturned == [returned |-> FALSE, setup |-> ZeroSetup, err |-> Nil]

\* The arguments of TerraformSetupBuilder: version, providerSource,
\* providerVersion and, in dns-v2.go only, tfProvider, a *schema.Provider
\* that may be nil ("none": the other version has no such parameter).
Builders(v) ==
    {[version |-> b[1], providerSource |-> b[2], providerVersion |-> b[3],
      tfProvider |-> t]
        : b \in {<<"1.5.7", "hashicorp/dns", "3.4.0">>,
                 <<"", "dana-team/dns", "1.5.7">>},
          t \in IF v = "sdk" THEN {"nil", "provider"} ELSE {"none"}}

SetupIdle ==
    /\ variant = "sdk"
    /\ builder \in {b \in Builders("sdk") : b.version = "" /\ b.tfProvider = "provider"}
    /\ mg = [kind |-> "other", ref |-> NilRef, namespace |-> ""]
    /\ store = Store
    /\ spc = "idle"
    /\ resolved = NoResolution
    /\ data = Doc("empty", <<>>)
    /\ stages = <<>>
    /\ ps = ZeroSetup
    /\ out = NotReturned

\* ------------------------------------------------------------------------
\* SpecAuth: one call of buildAuthConfig on every bounded credential mapping
\* ------------------------------------------------------------------------

PureIdle ==
    /\ probe = EmptyMap
    /\ calls = 0
    /\ log = {}

CtlIdle ==
    /\ gated = FALSE
    /\ mgr = "mgr1"
    /\ opts = "opts1"
    /\ cpc = "idle"
    /\ idx = 1
    /\ invoked = <<>>
    /\ ctlRet = Nil

BuildIdle ==
    /\ bpc = "idle"
    /\ creds = EmptyMap
    /\ passed = EmptyMap
    /\ config = EmptyMap
    /\ ret = EmptyMap

InitAuth ==
    /\ creds \in CredsUpTo(MaxFields)
    /\ bpc = "call"
    /\ passed = EmptyMap
    /\ config = EmptyMap
    /\ ret = EmptyMap
    /\ PureIdle
    /\ CtlIdle
    /\ SetupIdle

NextAuth == BuildStep

SpecAuth == InitAuth /\ [][NextAuth]_vars

\* ------------------------------------------------------------------------
\* SpecPure: buildAuthConfig called again and again, on one mapping (the
\* probe) and on other mappings in between
\* ------------------------------------------------------------------------

\* One key of each group of fields.
ProbeKeys == {keyServer, keyRealm, transcationKeyName, keyPort}

\* The mappings over ProbeKeys and "rfc".
ProbeCreds ==
    LET plain == UNION {[T -> FieldValues] : T \in SUBSET ProbeKeys}
    IN  plain \cup {Put(f, keyRFC, r) : f \in plain, r \in RfcValues}

\* The mapping that holds every key, "rfc" with value r and the others with v.
FullCreds(r, v) == [k \in FieldKeys \cup {keyRFC} |-> IF k = keyRFC THEN r ELSE v]

OtherCreds == {FullCreds(gsstsigRFC, "a"), FullCreds(keyBasedTransactionRFC, "")}

InitPure ==
    /\ probe \in ProbeCreds
    /\ calls = 0
    /\ log = {}
    /\ BuildIdle
    /\ CtlIdle
    /\ SetupIdle

\* authConfig := buildAuthConfig(creds), by a caller that holds the mapping c
Call(c) ==
    /\ bpc = "idle"
    /\ calls < MaxCalls
    /\ creds' = c
    /\ calls' = calls + 1
    /\ bpc' = "call"
    /\ UNCHANGED <<passed, config, ret, probe, log, ctlVars, setupVars>>

\* The caller has the result, and still holds the mapping it passed.
Finish ==
    /\ bpc = "returned"
    /\ log' = log \cup {[arg |-> passed, after |-> creds, result |-> ret]}
    /\ bpc' = "idle"
    /\ UNCHANGED <<creds, passed, config, ret, probe, calls, ctlVars, setupVars>>

NextPure ==
    \/ Call(probe)
    \/ \E c \in OtherCreds : Call(c)
    \/ BuildStep
    \/ Finish

SpecPure == InitPure /\ [][NextPure]_vars

\* ------------------------------------------------------------------------
\* SpecCtl: Setup and SetupGated of internal/controller/cluster/zz_setup.go
\* ------------------------------------------------------------------------

\* The registration list, in the order of the source (the same packages, in
\* the same order, in Setup and in SetupGated).
setups == <<"providerconfig", "cnamerecord", "ptrrecord", "aaaarecordset",
            "arecordset", "mxrecordset", "nsrecordset", "srvrecordset",
            "txtrecordset">>

\* The function of package p in the list of Setup, or of SetupGated.
SetupFn(p, g) == [pkg |-> p, fn |-> IF g THEN "SetupGated" ELSE "Setup"]

Managers == {"mgr1", "mgr2"}
Options == {"opts1", "opts2"}

\* What a registration function may return: nil, or an error of its own.
ErrKinds == {"start", "watch"}
SetupResults(p) == {Nil} \cup {<<p, k>> : k \in ErrKinds}

InitCtl ==
    /\ gated \in BOOLEAN
    /\ mgr \in Managers
    /\ opts \in Options
    /\ cpc = "loop"
    /\ idx = 1
    /\ invoked = <<>>
    /\ ctlRet = Nil
    /\ BuildIdle
    /\ PureIdle
    /\ SetupIdle

\* Variant: the error of a registration is dropped and the loop goes on.
CtlInvokeIgnoreErr ==
    /\ cpc = "loop"
    /\ idx <= Len(setups)
    /\ \E r \in SetupResults(setups[idx]) :
          /\ invoked' = Append(invoked, [f |-> SetupFn(setups[idx], gated),
                                         mgr |-> mgr, o |-> opts, err |-> r])
          /\ idx' = idx + 1
          /\ UNCHANGED <<cpc, ctlRet>>
    /\ UNCHANGED <<gated, mgr, opts, buildVars, callerVars, setupVars>>

\* Variant: the first error is kept and returned, but only after the loop
\* went through the whole list.
CtlInvokeKeepGoing ==
    /\ idx <= Len(setups)
    /\ \E r \in SetupResults(setups[idx]) :
          /\ invoked' = Append(invoked, [f |-> SetupFn(setups[idx], gated),
                                         mgr |-> mgr, o |-> opts, err |-> r])
          /\ idx' = idx + 1
          /\ ctlRet' = IF ctlRet = Nil THEN r ELSE ctlRet
          /\ cpc' = IF idx = Len(setups) /\ ctlRet' # Nil THEN "done" ELSE "loop"
    /\ UNCHANGED <<gated, mgr, opts, buildVars, callerVars, setupVars>>

\* if err := setup(mgr, o); err != nil { return err }
CtlInvoke ==
    /\ cpc = "loop"
    /\ idx <= Len(setups)
    /\ \E r \in SetupResults(setups[idx]) :
          /\ invoked' = Append(invoked, [f |-> SetupFn(setups[idx], gated),
                                         mgr |-> mgr, o |-> opts, err |-> r])
          /\ IF r # Nil
             THEN /\ ctlRet' = r
                  /\ cpc' = "done"
                  /\ UNCHANGED idx
             ELSE /\ idx' = idx + 1
                  /\ UNCHANGED <<cpc, ctlRet>>
    /\ UNCHANGED <<gated, mgr, opts, buildVars, callerVars, setupVars>>

\* return nil, after the loop
CtlReturnNil ==
    /\ cpc = "loop"
    /\ idx > Len(setups)
    /\ ctlRet' = Nil
    /\ cpc' = "done"
    /\ UNCHANGED <<gated, mgr, opts, idx, invoked, buildVars, callerVars, setupVars>>

NextCtl ==
    \/ CtlInvoke
    \/ CtlReturnNil

SpecCtl == InitCtl /\ [][NextCtl]_vars

\* ------------------------------------------------------------------------
\* SpecSetup: the setup function TerraformSetupBuilder returns, called for
\* one managed resource
\* ------------------------------------------------------------------------

InitSetup ==
    /\ variant \in Variants
    /\ builder \in Builders(variant)
    /\ mg \in Manageds
    /\ store = Store
    /\ spc = "start"
    /\ resolved = NoResolution
    /\ data = Doc("empty", <<>>)
    /\ stages = <<>>
    /\ ps = ZeroSetup
    /\ out = NotReturned
    /\ BuildIdle
    /\ PureIdle
    /\ CtlIdle

\* The call is in progress: it has neither returned nor panicked.
Running == spc \notin {"idle", "done", "panic"}

\* Another client of the API server deletes the provider config the
\* resource refers to, at any point of the call.
EnvDelete ==
    /\ Running
    /\ \E o \in Target(mg, store) : store' = store \ {o}
    /\ UNCHANGED <<variant, builder, mg, spc, resolved, data, stages, ps, out>>
    /\ UNCHANGED <<buildVars, callerVars, ctlVars>>

\* Another client edits the provider config the resource refers to.
EnvEdit ==
    /\ Running
    /\ \E o \in Target(mg, store) :
          /\ o.type \in {LegacyPC, ModernPC, ModernCPC}
          /\ o.spec # EditedSpec
          /\ store' = (store \ {o}) \cup {[o EXCEPT !.spec = EditedSpec]}
    /\ UNCHANGED <<variant, builder, mg, spc, resolved, data, stages, ps, out>>
    /\ UNCHANGED <<buildVars, callerVars, ctlVars>>

\* ps := terraform.Setup{Version: version, Requirement: {...}}
NewSetup(b) ==
    [ZeroSetup EXCEPT !.Version = b.version,
                      !.Requirement = [Source |-> b.providerSource,
                                       Version |-> b.providerVersion]]

SetupBegin ==
    /\ spc = "start"
    /\ ps' = NewSetup(builder)
    /\ spc' = "resolve"
    /\ UNCHANGED <<variant, builder, mg, store, resolved, data, stages, out>>
    /\ UNCHANGED <<buildVars, callerVars, ctlVars>>

\* Variant: a failed resolution returns ps, as the later stages do.
SetupResolveReturnsPs ==
    /\ spc = "resolve"
    /\ \E getOk \in BOOLEAN :
          resolved' = providerConfigGet(mg, store, getOk, variant)
    /\ stages' = Append(stages, "resolve")
    /\ IF resolved'.err # Nil
       THEN /\ out' = ReturnOf(ps,
                               Wrap(resolved'.err, "cannot resolve provider config"))
            /\ spc' = "done"
       ELSE /\ spc' = "track"
            /\ UNCHANGED out
    /\ UNCHANGED <<variant, builder, mg, store, data, ps>>
    /\ UNCHANGED <<buildVars, callerVars, ctlVars>>

\* pcSpec, err := resolveProviderConfig(ctx, client, mg), as far as its
\* client.Get: the reference, the type of the referenced kind, the Get
\* against the API server as it is now, and the type of the object fetched.
\* if err != nil { return terraform.Setup{}, errors.Wrap(err, ...) }
SetupResolve ==
    /\ spc = "resolve"
    /\ \E getOk \in BOOLEAN :
          resolved' = providerConfigGet(mg, store, getOk, variant)
    /\ stages' = Append(stages, "resolve")
    /\ IF resolved'.err # Nil
       THEN /\ out' = ReturnOf(ZeroSetup,
                               Wrap(resolved'.err, "cannot resolve provider config"))
            /\ spc' = "done"
       ELSE /\ spc' = "track"
            /\ UNCHANGED out
    /\ UNCHANGED <<variant, builder, mg, store, data, ps>>
    /\ UNCHANGED <<buildVars, callerVars, ctlVars>>

\* The rest of resolveProviderConfig: t.Track(ctx, mg), a second call to the
\* API server that writes the usage of mg to it, and the conversion of the
\* object fetched earlier.
\* if err != nil { return terraform.Setup{}, errors.Wrap(err, ...) }
SetupTrack ==
    /\ spc = "track"
    /\ \E trackOk, marshalOk, unmarshalOk \in BOOLEAN :
          /\ resolved' = providerConfigTrack(mg, resolved, trackOk, marshalOk, unmarshalOk)
          /\ store' = Tracked(store, mg, trackOk)
    /\ IF resolved'.err # Nil
       THEN /\ out' = ReturnOf(ZeroSetup,
                               Wrap(resolved'.err, "cannot resolve provider config"))
            /\ spc' = "done"
       ELSE /\ spc' = "extract"
            /\ UNCHANGED out
    /\ UNCHANGED <<variant, builder, mg, data, stages, ps>>
    /\ UNCHANGED <<buildVars, callerVars, ctlVars>>

\* data, err := resource.CommonCredentialExtractor(...): bytes or an error
\* if err != nil { return ps, errors.Wrap(err, errExtractCredentials) }
SetupExtract ==
    /\ spc = "extract"
    /\ stages' = Append(stages, "extract")
    /\ \E ok \in BOOLEAN :
          IF ok
          THEN /\ data' \in Docs
               /\ spc' = "unmarshal"
               /\ UNCHANGED out
          ELSE /\ out' = ReturnOf(ps, Wrap(NewError("extract failed"),
                                            errExtractCredentials))
               /\ spc' = "done"
               /\ UNCHANGED data
    /\ UNCHANGED <<variant, builder, mg, store, resolved, ps>>
    /\ UNCHANGED <<buildVars, callerVars, ctlVars>>

\* creds := map[string]string{}
\* if err := json.Unmarshal(data, &creds); err != nil { return ps, ... }
SetupUnmarshal ==
    /\ spc = "unmarshal"
    /\ stages' = Append(stages, "unmarshal")
    /\ creds' = Unmarshal(data, EmptyMap).creds
    /\ IF Unmarshal(data, EmptyMap).err # Nil
       THEN /\ out' = ReturnOf(ps, Wrap(Unmarshal(data, EmptyMap).err,
                                        errUnmarshalCredentials))
            /\ spc' = "done"
       ELSE /\ spc' = "build"
            /\ UNCHANGED out
    /\ UNCHANGED <<variant, builder, mg, store, resolved, data, ps>>
    /\ UNCHANGED <<bpc, passed, config, ret, callerVars, ctlVars>>

\* ps.Configuration = map[string]any{}; authConfig := buildAuthConfig(creds)
SetupCallBuild ==
    /\ spc = "build"
    /\ bpc = "idle"
    /\ stages' = Append(stages, "build")
    /\ ps' = [ps EXCEPT !.ConfigurationSet = TRUE, !.Configuration = EmptyMap]
    /\ bpc' = "call"
    /\ spc' = "building"
    /\ UNCHANGED <<variant, builder, mg, store, resolved, data, out>>
    /\ UNCHANGED <<creds, passed, config, ret, callerVars, ctlVars>>

\* Variant: the authentication configuration is merged into the top level
\* of the configuration instead of being listed under "update".
ConfigurationWithTopLevel(cfg, authConfig) == mergeMaps(cfg, authConfig)

\* ps.Configuration[update] = []any{authConfig}
ConfigurationWith(cfg, authConfig) == Put(cfg, update, <<authConfig>>)

SetupAssign ==
    /\ spc = "building"
    /\ bpc = "returned"
    /\ ps' = [ps EXCEPT !.Configuration = ConfigurationWith(ps.Configuration, ret)]
    /\ bpc' = "idle"
    /\ spc' = "configure"
    /\ UNCHANGED <<variant, builder, mg, store, resolved, data, stages, out>>
    /\ UNCHANGED <<creds, passed, config, ret, callerVars, ctlVars>>

\* What p.Configure returns: nil, diagnostics without an error, or
\* diagnostics with an error.
Diags == {"nil", "warning", "error"}

\* errors.Errorf("failed to configure the provider: %v", diag): the format
\* and its argument.
ConfigureError(diag) == <<"failed to configure the provider: %v", diag>>

\* dns-v2.go: return ps, errors.Wrap(configureNoForkDNSClient(ctx, &ps,
\* *tfProvider), "..."), as far as p.Configure. A nil tfProvider panics
\* when the argument *tfProvider is evaluated: nothing is returned. With
\* error diagnostics configureNoForkDNSClient returns before it writes ps.
SetupConfigureSDK ==
    /\ spc = "configure"
    /\ variant = "sdk"
    /\ stages' = Append(stages, "configure")
    /\ IF builder.tfProvider = "nil"
       THEN /\ spc' = "panic"
            /\ UNCHANGED out
       ELSE \E diag \in Diags :
               IF diag = "error"
               THEN /\ out' = ReturnOf(ps,
                                Wrap(ConfigureError(diag),
                                     "failed to configure the Terraform DNS provider meta"))
                    /\ spc' = "done"
               ELSE /\ spc' = "meta"
                    /\ UNCHANGED out
    /\ UNCHANGED <<variant, builder, mg, store, resolved, data, ps>>
    /\ UNCHANGED <<buildVars, callerVars, ctlVars>>

\* What xpprovider.GetProvider(ctx) returns first: a provider or nil ("").
FrameworkProviders == {"", "fwProvider"}

\* ps.Meta = p.Meta(); fwProvider, _ := xpprovider.GetProvider(ctx);
\* ps.FrameworkProvider = fwProvider, whatever fwProvider is.
Configured(setup, fw) ==
    [setup EXCEPT !.Meta = "meta", !.FrameworkProvider = fw]

\* The rest of configureNoForkDNSClient and the return. Go does not order
\* the read of ps in `return ps, errors.Wrap(configureNoForkDNSClient(ctx,
\* &ps, ...))` against the call that writes to it, so the Setup returned is
\* ps as it was before the call or as it is after it.
SetupProviderMeta ==
    /\ spc = "meta"
    /\ \E fw \in FrameworkProviders :
          /\ ps' = Configured(ps, fw)
          /\ \E s \in {ps, ps'} : out' = ReturnOf(s, Nil)
    /\ spc' = "done"
    /\ UNCHANGED <<variant, builder, mg, store, resolved, data, stages>>
    /\ UNCHANGED <<buildVars, callerVars, ctlVars>>

\* The other version: fwProvider, _ := xpprovider.GetProvider(ctx)
\* if fwProvider == nil { return ps, errors.New(...) }
\* ps.FrameworkProvider = fwProvider; return ps, nil
SetupConfigureFramework ==
    /\ spc = "configure"
    /\ variant = "framework"
    /\ stages' = Append(stages, "configure")
    /\ \E fw \in FrameworkProviders :
          IF fw = ""
          THEN /\ ps' = ps
               /\ out' = ReturnOf(ps, NewError("framework provider is nil"))
          ELSE /\ ps' = [ps EXCEPT !.FrameworkProvider = fw]
               /\ out' = ReturnOf(ps', Nil)
    /\ spc' = "done"
    /\ UNCHANGED <<variant, builder, mg, store, resolved, data>>
    /\ UNCHANGED <<buildVars, callerVars, ctlVars>>

NextSetup ==
    \/ SetupBegin
    \/ SetupResolve
    \/ SetupTrack
    \/ SetupExtract
    \/ SetupUnmarshal
    \/ SetupCallBuild
    \/ BuildStep
    \/ SetupAssign
    \/ SetupConfigureSDK
    \/ SetupProviderMeta
    \/ SetupConfigureFramework
    \/ EnvDelete
    \/ EnvEdit

SpecSetup == InitSetup /\ [][NextSetup]_vars

\* ========================================================================
\* Claims
\* ========================================================================

Returned == bpc = "returned"

RfcIs(v) == keyRFC \in DOMAIN passed /\ passed[keyRFC] = v

DefaultMode == ~RfcIs(gsstsigRFC) /\ ~RfcIs(keyBasedTransactionRFC)

\* m holds exactly the keys of K that c holds, each with c's value.
CopiesExactly(m, c, K) ==
    /\ (DOMAIN m) \cap K = (DOMAIN c) \cap K
    /\ \A k \in (DOMAIN c) \cap K : m[k] = c[k]

\* C1: in GSS-TSIG mode (rfc = "3645") the result holds "gssapi", a list of
\* exactly one mapping that holds exactly the keys among realm, username,
\* password, keytab that the credentials hold, with their values; no
\* authentication field is at the top level of the result.
C1_GSSTSIGMode ==
    (Returned /\ RfcIs(gsstsigRFC)) =>
        /\ gssapi \in DOMAIN ret
        /\ Len(ret[gssapi]) = 1
        /\ DOMAIN ret[gssapi][1] \subseteq GSSKeys
        /\ CopiesExactly(ret[gssapi][1], passed, GSSKeys)
        /\ (DOMAIN ret) \cap AuthKeys = {}

C1_Witness ==
    /\ Returned /\ RfcIs(gsstsigRFC)
    /\ {keyUsername, keyPassword} \subseteq DOMAIN passed
    /\ passed[keyUsername] # passed[keyPassword]
    /\ GSSKeys \ DOMAIN passed # {}
    /\ TransactionKeys \cap DOMAIN passed # {}
    /\ DOMAIN ret[gssapi][1] = {keyUsername, keyPassword}

\* C2: in secret-key transaction mode (rfc = "2845") the top level of the
\* result holds exactly the keys among key_name, key_algorithm, key_secret
\* that the credentials hold, with their values, and neither "gssapi" nor a
\* GSS-TSIG field, even when the credentials hold those.
C2_SecretKeyMode ==
    (Returned /\ RfcIs(keyBasedTransactionRFC)) =>
        /\ CopiesExactly(ret, passed, TransactionKeys)
        /\ gssapi \notin DOMAIN ret
        /\ (DOMAIN ret) \cap GSSKeys = {}

C2_Witness ==
    /\ Returned /\ RfcIs(keyBasedTransactionRFC)
    /\ {transactionKeySecret, transcationKeyName} \subseteq DOMAIN ret
    /\ ret[transactionKeySecret] # ret[transcationKeyName]
    /\ transactionKeyAlgorithm \notin DOMAIN passed
    /\ GSSKeys \cap DOMAIN passed # {}

\* C3: in default mode (rfc absent, or neither "3645" nor "2845") the keys of
\* the result are among server, port, retries, timeout, transport, whatever
\* authentication fields the credentials hold; "rfc" is in no result, in any
\* mode.
C3_DefaultMode ==
    Returned =>
        /\ DefaultMode => (DOMAIN ret) \subseteq ({keyServer} \cup OptionalKeys)
        /\ keyRFC \notin DOMAIN ret

C3_Witness ==
    /\ Returned
    /\ keyRFC \in DOMAIN passed /\ passed[keyRFC] = "1035"
    /\ GSSKeys \cap DOMAIN passed # {}
    /\ TransactionKeys \cap DOMAIN passed # {}
    /\ keyServer \in DOMAIN ret

\* C4 (state part): in every mode each of server, port, retries, timeout,
\* transport is at the top level of the result iff the credentials hold it,
\* and then with the same value.
C4_CommonFields ==
    Returned => CopiesExactly(ret, passed, {keyServer} \cup OptionalKeys)

\* C4 (step part): merging the optional fields keeps every key written
\* earlier, with its value.
C4_MergeKeeps ==
    (bpc = "optional") =>
        \A k \in DOMAIN config : k \in DOMAIN config' /\ config'[k] = config[k]

\* C4: in every mode the common fields are copied iff present, with their
\* values, and the final merge overwrites or removes no earlier key.
C4_OptionalMerge == [](C4_CommonFields) /\ [][C4_MergeKeeps]_vars

C4_Witness ==
    /\ Returned /\ RfcIs(keyBasedTransactionRFC)
    /\ {keyServer, keyPort, transcationKeyName} \subseteq DOMAIN ret
    /\ ret[keyServer] # ret[keyPort]
    /\ OptionalKeys \ DOMAIN ret # {}

\* The place of key k in the result: inside gssapi's mapping for a GSS-TSIG
\* field, the top level otherwise.
PlaceOf(k) == IF k \in GSSKeys THEN ret[gssapi][1] ELSE ret

\* The fields copied in the mode of the call.
ModeKeys ==
    ({keyServer} \cup OptionalKeys)
    \cup (IF RfcIs(gsstsigRFC) THEN GSSKeys ELSE {})
    \cup (IF RfcIs(keyBasedTransactionRFC) THEN TransactionKeys ELSE {})

\* C8: presence is key existence: a common field, or a field of the call's
\* mode, that the credentials map to the empty string is in the result with
\* the empty string as its value.
C8_EmptyIsPresent ==
    Returned =>
        \A k \in ModeKeys \cap DOMAIN passed :
            passed[k] = "" => (k \in DOMAIN PlaceOf(k) /\ PlaceOf(k)[k] = "")

C8_Witness ==
    /\ Returned /\ RfcIs(gsstsigRFC)
    /\ keyTimeout \in DOMAIN passed /\ passed[keyTimeout] = ""
    /\ keyRealm \in DOMAIN passed /\ passed[keyRealm] = ""
    /\ ret[keyTimeout] = "" /\ ret[gssapi][1][keyRealm] = ""

\* C5: buildAuthConfig is pure and stateless: a call leaves the mapping it is
\* given unchanged, and any two completed calls with equal mappings returned
\* equal results, whatever calls came before or in between.
C5_Pure ==
    /\ \A e \in log : e.after = e.arg
    /\ \A e1, e2 \in log : e1.arg = e2.arg => e1.result = e2.result
    /\ Returned => (creds = passed /\ \A e \in log : e.arg = passed => e.result = ret)

\* The probe was called, then another mapping, and the probe again.
C5_Witness ==
    /\ Returned /\ calls = 3 /\ passed = probe
    /\ Cardinality(log) = 2
    /\ \E e \in log : e.arg = probe /\ e.result = ret
    /\ gssapi \in DOMAIN ret /\ keyServer \in DOMAIN ret

\* The invocations of the function of package p.
InvocationsOf(p) == {i \in 1..Len(invoked) : invoked[i].f.pkg = p}

\* Package p's function of the called list was invoked exactly once, on the
\* supplied manager and options, and returned nil.
RegisteredOnce(p) ==
    /\ Cardinality(InvocationsOf(p)) = 1
    /\ \A i \in InvocationsOf(p) :
          /\ invoked[i].f = SetupFn(p, gated)
          /\ invoked[i].mgr = mgr
          /\ invoked[i].o = opts
          /\ invoked[i].err = Nil

NinePackages ==
    {"providerconfig", "cnamerecord", "ptrrecord", "aaaarecordset", "arecordset",
     "mxrecordset", "nsrecordset", "srvrecordset", "txtrecordset"}

\* C7: Setup (and SetupGated) returns nil iff each of the nine registration
\* functions was invoked exactly once on the supplied manager and options
\* and returned nil.
C7_AllRegistered ==
    (cpc = "done") =>
        (ctlRet = Nil <=> \A p \in NinePackages : RegisteredOnce(p))

C7_Witness ==
    /\ cpc = "done" /\ gated /\ ctlRet = Nil
    /\ Len(invoked) = 9
    /\ \A p \in NinePackages : RegisteredOnce(p)

\* C9: registration follows the listed order and stops at the first
\* failure: when the function at position i fails, Setup returns exactly its
\* error, the functions before i were invoked once each (and returned nil)
\* and no function after i is invoked.
C9_StopAtFirstFailure ==
    /\ Len(invoked) <= Len(setups)
    /\ \A i \in 1..Len(invoked) :
          /\ invoked[i].f = SetupFn(setups[i], gated)
          /\ (i < Len(invoked)) => invoked[i].err = Nil
    /\ \A i \in 1..Len(invoked) :
          invoked[i].err # Nil => (cpc = "done" /\ ctlRet = invoked[i].err)
    /\ (cpc = "done" /\ ctlRet # Nil) =>
          (invoked # <<>> /\ invoked[Len(invoked)].err = ctlRet)

C9_Witness ==
    /\ cpc = "done" /\ ~gated
    /\ Len(invoked) = 4
    /\ ctlRet = <<"aaaarecordset", "watch">>
    /\ InvocationsOf("arecordset") = {}

\* C6: when the setup function returns a nil error, the Setup returned
\* carries the Version, provider Source and provider Version given to the
\* builder, and its Configuration has the one key "update", a list of
\* exactly one element: buildAuthConfig of the credentials parsed from the
\* extracted bytes.
C6_SetupOnSuccess ==
    (out.returned /\ out.err = Nil) =>
        /\ out.setup.Version = builder.version
        /\ out.setup.Requirement.Source = builder.providerSource
        /\ out.setup.Requirement.Version = builder.providerVersion
        /\ out.setup.ConfigurationSet
        /\ DOMAIN out.setup.Configuration = {update}
        /\ Len(out.setup.Configuration[update]) = 1
        /\ out.setup.Configuration[update][1]
              = buildAuthConfig(Unmarshal(data, EmptyMap).creds)

C6_Witness ==
    /\ out.returned /\ out.err = Nil
    /\ mg.kind = "modern"
    /\ out.setup.Version = "1.5.7"
    /\ gssapi \in DOMAIN out.setup.Configuration[update][1]
    /\ keyRealm \in DOMAIN out.setup.Configuration[update][1][gssapi][1]

\* o is the provider config of type t named n that a resource in namespace
\* ns refers to.
Referenced(o, t, n, ns) ==
    /\ o.type = t
    /\ o.name = n
    /\ (t = ModernPC => o.namespace = ns)

\* resolveProviderConfig has returned.
Resolved == stages # <<>> /\ spc # "track"

C10_Outcome ==
    (stages # <<>>) =>
        /\ (Resolved /\ resolved.err = Nil) => ~resolved.spec.nil
        /\ (mg.kind = "legacy") =>
              /\ ~resolved.req.nil => resolved.req = GetReq(LegacyPC, mg.ref.name, "")
              /\ (Resolved /\ resolved.err = Nil) =>
                    \E o \in resolved.fetched :
                        /\ resolved.fetched = {o}
                        /\ Referenced(o, LegacyPC, mg.ref.name, mg.namespace)
                        /\ resolved.spec = o.spec
        /\ (mg.kind = "modern") =>
              /\ ~resolved.req.nil =>
                    /\ resolved.req.name = mg.ref.name
                    /\ resolved.req.namespace = mg.namespace
                    /\ mg.ref.kind = "ProviderConfig" => resolved.req.type = ModernPC
                    /\ mg.ref.kind = "ClusterProviderConfig" => resolved.req.type = ModernCPC
              /\ (resolved.err = Nil) =>
                    /\ mg.ref.kind \in {"ProviderConfig", "ClusterProviderConfig"}
                    /\ \E o \in resolved.fetched :
                          /\ resolved.fetched = {o}
                          /\ Referenced(o, resolved.req.type, mg.ref.name, mg.namespace)
                          /\ resolved.spec.source = o.spec.source
                          /\ resolved.spec.secretRef.nil = o.spec.secretRef.nil
                          /\ resolved.spec.secretRef.name = o.spec.secretRef.name
                          /\ resolved.spec.secretRef.key = o.spec.secretRef.key
                          /\ (o.type = ModernCPC) => resolved.spec = o.spec
              /\ (\E o \in resolved.fetched : o.type \notin {ModernPC, ModernCPC}) =>
                    resolved.err # Nil
        /\ (mg.kind \notin {"legacy", "modern"}) =>
              /\ resolved.err # Nil
              /\ resolved.spec.nil
              /\ resolved.req.nil

\* The object a resolution works on is one the API server holds when the
\* Get is made, and the Track that follows does not replace it.
C10_Fetches ==
    /\ (spc = "resolve") => resolved'.fetched \subseteq store
    /\ (spc = "track") => resolved'.fetched = resolved.fetched

\* C10: resolveProviderConfig dispatches on the kind of managed resource. A
\* legacy resource is resolved against the cluster-scoped ProviderConfig its
\* reference names; a modern one against the ProviderConfig or
\* ClusterProviderConfig of the referenced kind, looked up with the
\* resource's namespace; a resource that is neither yields an error and no
\* spec; a modern reference whose fetched object is of neither
\* provider-config type yields an error.
C10_ResolveDispatch == [](C10_Outcome) /\ [][C10_Fetches]_vars

\* A modern resource in ns2 resolved against the ProviderConfig of ns2, not
\* the one of the same name in ns1.
C10_Witness ==
    /\ Resolved
    /\ mg.kind = "modern" /\ mg.namespace = "ns2" /\ mg.ref.kind = "ProviderConfig"
    /\ resolved.err = Nil
    /\ resolved.tracked /\ UsageOf(mg) \in store
    /\ resolved.req = GetReq(ModernPC, "default", "ns2")
    /\ resolved.spec.source = "None"

\* The stage entered last.
LastStage == IF stages = <<>> THEN "" ELSE stages[Len(stages)]

Entered(stage) == \E i \in 1..Len(stages) : stages[i] = stage

\* buildAuthConfig was not invoked.
NeverBuilt == ~Entered("build") /\ bpc = "idle" /\ config = EmptyMap

\* C11: the error outcomes of the setup function follow the stage that
\* failed. A failed resolution returns a non-nil error with the zero Setup,
\* and credentials are never extracted. A failed extraction or a failed
\* parse of the credentials returns a non-nil error with a Setup that has
\* Version and Requirement but no Configuration, and buildAuthConfig is
\* never invoked. Configuration is set only after resolution, extraction
\* and parsing all succeeded.
C11_ErrorOutcomes ==
    /\ (Entered("resolve") /\ resolved.err # Nil) =>
          /\ out.returned /\ out.err # Nil
          /\ out.setup = ZeroSetup
          /\ stages = <<"resolve">>
          /\ NeverBuilt
    /\ (out.returned /\ LastStage = "extract") =>
          /\ out.err # Nil
          /\ out.setup = NewSetup(builder)
          /\ ~out.setup.ConfigurationSet
          /\ NeverBuilt
    /\ (Entered("unmarshal") /\ Unmarshal(data, EmptyMap).err # Nil) =>
          /\ out.returned /\ out.err # Nil
          /\ out.setup = NewSetup(builder)
          /\ ~out.setup.ConfigurationSet
          /\ LastStage = "unmarshal"
          /\ NeverBuilt
    /\ (ps.ConfigurationSet \/ out.setup.ConfigurationSet) =>
          /\ Len(stages) >= 4
          /\ stages[1] = "resolve" /\ resolved.err = Nil
          /\ stages[2] = "extract"
          /\ stages[3] = "unmarshal" /\ Unmarshal(data, EmptyMap).err = Nil
          /\ stages[4] = "build"

\* The credentials hold a number: parsing failed after resolution and
\* extraction succeeded, and the Setup returned has the builder's values.
C11_Witness ==
    /\ out.returned /\ out.err # Nil
    /\ stages = <<"resolve", "extract", "unmarshal">>
    /\ HasNumber(data.members)
    /\ out.setup.Version = "1.5.7"
    /\ out.setup.Requirement.Source = "hashicorp/dns"
    /\ ~out.setup.ConfigurationSet

====
